---------------------------- MODULE Spec2Model ----------------------------
(***************************************************************************)
(* rocketbar: a status-bar producer.  Two threads share one volume cell    *)
(* (Mutex<u32>) and one wake pair (Mutex<bool>, Condvar):                  *)
(*   - the main thread prints the protocol header, the first snapshot and  *)
(*     then loops: lock the pair, wait_timeout(1 s), read the cell, print; *)
(*   - the watcher thread reads `pactl subscribe` lines, re-queries the    *)
(*     volume on sink-change lines and publishes a changed value.          *)
(* Every lock acquisition, release, wait and print of src/main.rs is one   *)
(* step.  Time is not measured: the timeout is a step the waiting main     *)
(* thread may take at any moment.                                          *)
(***************************************************************************)
EXTENDS Integers, Sequences, FiniteSets, TLC

\* ------------------------------------------------------------------ bounds
\* Lines of the event stream the watcher reads before the stream is cut off.
MaxEvents == 2
\* Snapshots the main thread prints before the model stops it.
MaxSnapshots == 3

\* Largest binary exponent of a byte count given to readable_bytes.
MaxExp == 62

\* Binary digits after the point of a byte count given to readable_bytes.
MaxFrac == 3

\* ------------------------------------------------------- program constants
\* unwrap_or(0): the cell's value when the startup query gives nothing.
DefaultVolume == 0

\* --------------------------------------------------------- Option<u32>
None == <<>>
Some(v) == <<v>>
IsSome(o) == o # None
Unwrap(o) == o[1]
unwrap_or(o, d) == IF IsSome(o) THEN Unwrap(o) ELSE d

\* ------------------------------------------------------------ environment
\* What `pactl get-sink-volume @DEFAULT_SINK@` can give: the command cannot
\* be run, its output has no "/ <digits>%" (no default sink), or the first
\* such group carries digits: too many for a u32, or the number pct (pactl
\* reports above 100% for an amplified sink).
Percents == {0, 42, 150}
PactlOutputs ==
    {[ran |-> FALSE, matched |-> FALSE, fits |-> FALSE, pct |-> 0],
     [ran |-> TRUE, matched |-> FALSE, fits |-> FALSE, pct |-> 0],
     [ran |-> TRUE, matched |-> TRUE, fits |-> FALSE, pct |-> 0]}
    \cup {[ran |-> TRUE, matched |-> TRUE, fits |-> TRUE, pct |-> p] : p \in Percents}

\* Lines of `pactl subscribe`, and a line the reader fails on (not UTF-8).
SinkChangeLine == "Event 'change' on sink #0"
SinkInputChangeLine == "Event 'change' on sink-input #7"
SourceChangeLine == "Event 'change' on source #1"
SinkNewLine == "Event 'new' on sink #2"
EventLines == {SinkChangeLine, SinkInputChangeLine, SourceChangeLine, SinkNewLine}
\* Result<String, io::Error> of one item of reader.lines().
ReadResults == {[ok |-> TRUE, text |-> l] : l \in EventLines}
               \cup {[ok |-> FALSE, text |-> ""]}

\* The two backlight files as print_status finds them: each is readable or
\* not, and holds a number or not.
BacklightFile(readable, numeric, val) == [readable |-> readable, numeric |-> numeric, val |-> val]
BacklightStates ==
    {[cur |-> BacklightFile(FALSE, FALSE, 0), max |-> BacklightFile(FALSE, FALSE, 0)],
     [cur |-> BacklightFile(TRUE, TRUE, 5), max |-> BacklightFile(TRUE, FALSE, 0)],
     [cur |-> BacklightFile(TRUE, TRUE, 5), max |-> BacklightFile(TRUE, TRUE, 10)]}

\* ------------------------------------------------------------- helpers
\* get_volume: None when the command fails, nothing matches or the digits do
\* not fit a u32.
get_volume(o) ==
    IF ~o.ran THEN None
    ELSE IF ~o.matched THEN None
    ELSE IF o.fits THEN Some(o.pct) ELSE None

\* event.contains("Event 'change' on sink"): a substring test, so a sink-input
\* change matches too.
ContainsMarker(text) == text \in {SinkChangeLine, SinkInputChangeLine}

\* format_volume: icon by value, then the number.
format_volume(vol) ==
    [icon |-> IF vol = 0 THEN "U+EEE8" ELSE "U+F028", value |-> vol]

\* get_brightness: Err when either file is unreadable or not a number, else
\* the quotient times 100 cast to u32 (max_brightness is positive in every
\* BacklightStates entry, and the values divide without rounding).
get_brightness(b) ==
    IF ~b.cur.readable \/ ~b.max.readable THEN None
    ELSE IF ~b.cur.numeric \/ ~b.max.numeric THEN None
    ELSE Some((b.cur.val * 100) \div b.max.val)

VolumeBlock(vol) == [name |-> "volume", full_text |-> format_volume(vol)]
BrightnessBlock(br) == [name |-> "brightness", full_text |-> [icon |-> "U+F185", value |-> br]]
\* The clock text is the wall time, which the model does not measure.
ClockBlock == [name |-> "clock", full_text |-> [icon |-> "U+F0954", value |-> 0]]

\* Mutant of BuildStatus: a failed brightness read ends the build early, so
\* the blocks after it are missing.
BuildStatusAbort(vol, b) ==
    IF IsSome(get_brightness(b))
    THEN <<VolumeBlock(vol), BrightnessBlock(Unwrap(get_brightness(b))), ClockBlock>>
    ELSE <<VolumeBlock(vol)>>

\* The status vector print_status builds.
BuildStatus(vol, b) ==
    <<VolumeBlock(vol)>>
    \o (IF IsSome(get_brightness(b)) THEN <<BrightnessBlock(Unwrap(get_brightness(b)))>> ELSE <<>>)
    \o <<ClockBlock>>

\* Lines of stdout: the text printed around the serialized blocks.
VersionLine == [text |-> "{ \"version\": 1 }", blocks |-> <<>>]
OpenLine == [text |-> "[", blocks |-> <<>>]
SnapshotLine(vol, b) == [text |-> "{},", blocks |-> BuildStatus(vol, b)]

\* ------------------------------------------------------------------ state
\* ------------------------------------------------------------ f32 values
\* A finite f32 that is not negative: m * 2^e with m below 2^24.
F32(m, e) == [m |-> m, e |-> e]
Mantissas == {0, 1, 3, 1023, 1025}
ByteCounts == {F32(m, e) : m \in Mantissas, e \in (0 - MaxFrac)..MaxExp}

\* ["B", "KB", "MB", "GB", "TB", "PB"]
Units == <<"B", "KB", "MB", "GB", "TB", "PB">>

\* Mutant of Lt1024: the comparison lets 1024 itself through.
Le1024(x) == x.m = 0 \/ (x.e <= 10 /\ x.m <= 2^(10 - x.e))

\* num < 1024.0
Lt1024(x) == x.m = 0 \/ (x.e <= 10 /\ x.m < 2^(10 - x.e))

\* num /= 1024.0: exact, the divisor being a power of two.
Div1024(x) == F32(x.m, x.e - 10)

\* The hundredths {num:.2} prints for a value below 1024: the nearest, and
\* the even one of two equally near.
Hundredths(x) ==
    IF x.m = 0 THEN 0
    ELSE IF x.e >= 0 THEN 100 * x.m * 2^(x.e)
    ELSE LET d == 2^(0 - x.e)
             q == (100 * x.m) \div d
             r == (100 * x.m) % d
         IN  IF 2 * r > d \/ (2 * r = d /\ q % 2 = 1) THEN q + 1 ELSE q

\* The digits of h hundredths with two decimals.
Fixed2(h) == ToString(h \div 100) \o "." \o ToString((h % 100) \div 10) \o ToString(h % 10)

\* The state of readable_bytes before any call.
NotCalled == [pc |-> "not_called", arg |-> F32(0, 0), num |-> F32(0, 0), unit |-> 1, ret |-> ""]

VARIABLES
    mpc,          \* main thread: where it stands in main()
    wpc,          \* watcher thread: where it stands in the closure
    volume,       \* the u32 inside Arc<Mutex<u32>> (line 372)
    notified,     \* the bool inside the pair's Mutex<bool> (line 373)
    volLock,      \* holder of the volume mutex: "none", "main", "watcher"
    sigLock,      \* holder of the pair's mutex
    poisoned,     \* mutexes a thread panicked while holding
    new_vol,      \* watcher local (line 394)
    vol,          \* main local: the value handed to print_status
    out,          \* lines written to stdout so far
    backlight,    \* the backlight files as the last print_status found them
    events,       \* lines the watcher has read
    waits,        \* wait_timeout calls that have returned
    signals,      \* notify_one calls made
    changed,      \* re-queries that gave a value other than the stored one
    wakeCause,    \* what ended the current or last wait: "none", "signal", "timeout"
    missedSignal, \* a notify_one found main outside wait_timeout since the last wait
    lastObserved, \* result of the latest successful get_volume, None before any
    wakeVals,     \* values written since (and with) the write whose notify woke main
    event,        \* watcher local: the item of reader.lines() under test (line 391)
    staleShown,   \* snapshots printed since the last store that show another value
    rb            \* one call of readable_bytes: its argument, locals and result

vars == <<mpc, wpc, volume, notified, volLock, sigLock, poisoned, new_vol, vol, out,
          backlight, events, waits, signals, changed, wakeCause, missedSignal, lastObserved,
          wakeVals, event, staleShown, rb>>

mainVars == <<mpc, vol, out, backlight, waits>>
watcherVars == <<wpc, new_vol, event, events, signals, changed>>
lockVars == <<volLock, sigLock, poisoned>>
ghostVars == <<wakeCause, missedSignal, lastObserved, wakeVals>>

\* Snapshot lines printed so far (the two header lines come first).
snapshots == IF Len(out) > 2 THEN Len(out) - 2 ELSE 0

\* The mutexes a thread holds.
HeldBy(t) == (IF volLock = t THEN {"volume"} ELSE {}) \cup (IF sigLock = t THEN {"signal"} ELSE {})

\* main thread inside cvar.wait_timeout (line 423): blocked, or woken and
\* taking the pair's mutex back.
InWait == mpc \in {"waiting", "woken"}

MainInit ==
    /\ mpc = "print_version"
    /\ wpc = "not_spawned"
    /\ volume = DefaultVolume
    /\ notified = FALSE
    /\ volLock = "none"
    /\ sigLock = "none"
    /\ poisoned = {}
    /\ new_vol = DefaultVolume
    /\ vol = DefaultVolume
    /\ out = <<>>
    /\ backlight = [cur |-> BacklightFile(FALSE, FALSE, 0), max |-> BacklightFile(FALSE, FALSE, 0)]
    /\ events = 0
    /\ waits = 0
    /\ signals = 0
    /\ changed = 0
    /\ wakeCause = "none"
    /\ missedSignal = FALSE
    /\ lastObserved = None
    /\ wakeVals = {}
    /\ event = None
    /\ staleShown = 0

\* readable_bytes is called from nowhere in the program.
Init ==
    /\ MainInit
    /\ rb = NotCalled

\* ------------------------------------------------------------ main thread
\* println!(r#"{{ "version": 1 }}"#)
MPrintVersion ==
    /\ mpc = "print_version"
    /\ out' = Append(out, VersionLine)
    /\ mpc' = "print_open"
    /\ UNCHANGED <<vol, backlight, waits, volume, notified, watcherVars, lockVars, ghostVars>>
    /\ UNCHANGED <<staleShown, rb>>

\* println!("[")
MPrintOpen ==
    /\ mpc = "print_open"
    /\ out' = Append(out, OpenLine)
    /\ mpc' = "init_volume"
    /\ UNCHANGED <<vol, backlight, waits, volume, notified, watcherVars, lockVars, ghostVars>>
    /\ UNCHANGED <<staleShown, rb>>

\* Mutant of MInitVolume: unwrap() in place of unwrap_or(0), which panics when
\* the startup query gives nothing.
MInitVolumeUnwrap ==
    /\ mpc = "init_volume"
    /\ \E o \in PactlOutputs :
          /\ volume' = unwrap_or(get_volume(o), DefaultVolume)
          /\ lastObserved' = get_volume(o)
          /\ mpc' = IF IsSome(get_volume(o)) THEN "spawn" ELSE "panicked"
    /\ notified' = FALSE
    /\ UNCHANGED <<vol, out, backlight, waits, watcherVars, lockVars, wakeCause,
                   missedSignal, wakeVals>>
    /\ UNCHANGED <<staleShown, rb>>

\* Arc::new(Mutex::new(get_volume().unwrap_or(0))) and the pair
MInitVolume ==
    /\ mpc = "init_volume"
    /\ \E o \in PactlOutputs :
          /\ volume' = unwrap_or(get_volume(o), DefaultVolume)
          /\ lastObserved' = get_volume(o)
    /\ notified' = FALSE
    /\ mpc' = "spawn"
    /\ UNCHANGED <<vol, out, backlight, waits, watcherVars, lockVars, wakeCause,
                   missedSignal, wakeVals>>
    /\ UNCHANGED <<staleShown, rb>>

\* thread::spawn(move || ...)
MSpawnWatcher ==
    /\ mpc = "spawn"
    /\ wpc' = "subscribe"
    /\ mpc' = "first_lock"
    /\ UNCHANGED <<vol, out, backlight, waits, volume, notified, new_vol, events, signals,
                   changed, lockVars, ghostVars>>
    /\ UNCHANGED <<event, staleShown, rb>>

\* A thread that unwraps a poisoned lock panics; the mutexes it holds are
\* released and poisoned.
Panic(t) ==
    /\ poisoned' = poisoned \cup HeldBy(t)
    /\ volLock' = IF volLock = t THEN "none" ELSE volLock
    /\ sigLock' = IF sigLock = t THEN "none" ELSE sigLock

\* Mutant of MFirstLock: the value is copied out first, as in the loop, and
\* the guard is gone before print_status is called.
MFirstLockCopy ==
    /\ mpc = "first_lock"
    /\ volLock = "none"
    /\ vol' = volume
    /\ mpc' = "first_print"
    /\ UNCHANGED <<out, backlight, waits, volume, notified, watcherVars, lockVars, ghostVars>>
    /\ UNCHANGED <<staleShown, rb>>

\* The argument *volume.lock().unwrap() of the first print_status: the guard
\* is a temporary of the call statement and lives until the call returns.
MFirstLock ==
    /\ mpc = "first_lock"
    /\ volLock = "none"
    /\ IF "volume" \in poisoned
       THEN /\ mpc' = "panicked"
            /\ Panic("main")
            /\ UNCHANGED vol
       ELSE /\ volLock' = "main"
            /\ vol' = volume
            /\ mpc' = "first_print"
            /\ UNCHANGED <<sigLock, poisoned>>
    /\ UNCHANGED <<out, backlight, waits, volume, notified, watcherVars, ghostVars>>
    /\ UNCHANGED <<staleShown, rb>>

\* Mutant of print_status: the line is printed without its trailing comma.
print_statusNoComma(v) ==
    /\ backlight' \in BacklightStates
    /\ out' = Append(out, [text |-> "{}", blocks |-> BuildStatus(v, backlight')])
    /\ staleShown' = IF v # volume THEN staleShown + 1 ELSE staleShown

\* print_status(sys, volume, tracker): the blocks, then one println!.
print_status(v) ==
    /\ backlight' \in BacklightStates
    /\ out' = Append(out, SnapshotLine(v, backlight'))
    /\ staleShown' = IF v # volume THEN staleShown + 1 ELSE staleShown

\* The first print_status call, then the guard is dropped.
MFirstPrint ==
    /\ mpc = "first_print"
    /\ print_status(vol)
    /\ volLock' = "none"
    /\ mpc' = "lock_signal"
    /\ UNCHANGED <<vol, waits, volume, notified, watcherVars, sigLock, poisoned, ghostVars>>
    /\ UNCHANGED <<rb>>

\* loop { let notified = lock.lock().unwrap();
SLockSignal ==
    /\ mpc = "lock_signal"
    /\ snapshots < MaxSnapshots
    /\ sigLock = "none"
    /\ IF "signal" \in poisoned
       THEN /\ mpc' = "panicked"
            /\ Panic("main")
       ELSE /\ sigLock' = "main"
            /\ mpc' = "wait"
            /\ UNCHANGED <<volLock, poisoned>>
    /\ UNCHANGED <<vol, out, backlight, waits, volume, notified, watcherVars, ghostVars>>
    /\ UNCHANGED <<staleShown, rb>>

\* cvar.wait_timeout(notified, 1 s): unlocks the mutex and blocks, in one step.
\* The flag is not looked at before blocking.
SWaitEnter ==
    /\ mpc = "wait"
    /\ sigLock' = "none"
    /\ mpc' = "waiting"
    /\ wakeCause' = "none"
    /\ wakeVals' = {}
    /\ UNCHANGED <<vol, out, backlight, waits, volume, notified, watcherVars, volLock,
                   poisoned, missedSignal, lastObserved>>
    /\ UNCHANGED <<staleShown, rb>>

\* Mutant of SWaitTimeout: cvar.wait in place of wait_timeout, which no
\* timeout ever ends.
SWaitNoTimeout ==
    /\ mpc = "waiting"
    /\ FALSE
    /\ UNCHANGED vars

\* The wait ends without a notification: the second has passed.
SWaitTimeout ==
    /\ mpc = "waiting"
    /\ mpc' = "woken"
    /\ wakeCause' = "timeout"
    /\ UNCHANGED <<vol, out, backlight, waits, volume, notified, watcherVars, lockVars,
                   missedSignal, lastObserved, wakeVals>>
    /\ UNCHANGED <<staleShown, rb>>

\* wait_timeout takes the mutex back and returns (guard, timed_out); unwrap.
SWaitReturn ==
    /\ mpc = "woken"
    /\ sigLock = "none"
    /\ IF "signal" \in poisoned
       THEN /\ mpc' = "panicked"
            /\ Panic("main")
            /\ UNCHANGED waits
       ELSE /\ sigLock' = "main"
            /\ mpc' = "drop_signal"
            /\ waits' = waits + 1
            /\ UNCHANGED <<volLock, poisoned>>
    /\ missedSignal' = FALSE
    /\ UNCHANGED <<vol, out, backlight, volume, notified, watcherVars, wakeCause,
                   lastObserved, wakeVals>>
    /\ UNCHANGED <<staleShown, rb>>

\* Mutant of SDropSignal: the result is bound to a name, so the guard of the
\* pair's mutex lives on while the cell is read.
SKeepSignal ==
    /\ mpc = "drop_signal"
    /\ mpc' = "read_volume"
    /\ UNCHANGED <<vol, out, backlight, waits, volume, notified, watcherVars, lockVars,
                   ghostVars>>
    /\ UNCHANGED <<staleShown, rb>>

\* let _ = ...: the returned guard and flag are dropped unread, the flag is
\* neither tested nor reset.
SDropSignal ==
    /\ mpc = "drop_signal"
    /\ sigLock' = "none"
    /\ mpc' = "read_volume"
    /\ UNCHANGED <<vol, out, backlight, waits, volume, notified, watcherVars, volLock,
                   poisoned, ghostVars>>
    /\ UNCHANGED <<staleShown, rb>>

\* Mutant of SReadVolume: the cell is copied only when a signal ended the
\* wait; after a timeout the previous copy is used again.
SReadVolumeOnSignal ==
    /\ mpc = "read_volume"
    /\ volLock = "none"
    /\ IF "volume" \in poisoned
       THEN /\ mpc' = "panicked"
            /\ Panic("main")
            /\ UNCHANGED vol
       ELSE /\ volLock' = "main"
            /\ vol' = IF wakeCause = "signal" THEN volume ELSE vol
            /\ mpc' = "unlock_volume"
            /\ UNCHANGED <<sigLock, poisoned>>
    /\ UNCHANGED <<out, backlight, waits, volume, notified, watcherVars, ghostVars>>
    /\ UNCHANGED <<staleShown, rb>>

\* let vol = *volume.lock().unwrap();  (lock and copy)
SReadVolume ==
    /\ mpc = "read_volume"
    /\ volLock = "none"
    /\ IF "volume" \in poisoned
       THEN /\ mpc' = "panicked"
            /\ Panic("main")
            /\ UNCHANGED vol
       ELSE /\ volLock' = "main"
            /\ vol' = volume
            /\ mpc' = "unlock_volume"
            /\ UNCHANGED <<sigLock, poisoned>>
    /\ UNCHANGED <<out, backlight, waits, volume, notified, watcherVars, ghostVars>>
    /\ UNCHANGED <<staleShown, rb>>

\* ... the temporary guard is dropped at the end of the let statement.
SUnlockVolume ==
    /\ mpc = "unlock_volume"
    /\ volLock' = "none"
    /\ mpc' = "print_status"
    /\ UNCHANGED <<vol, out, backlight, waits, volume, notified, watcherVars, sigLock,
                   poisoned, ghostVars>>
    /\ UNCHANGED <<staleShown, rb>>

\* Mutant of SPrintStatus: while the flag is set the loop builds again
\* without waiting.
SPrintStatusAgain ==
    /\ mpc = "print_status"
    /\ snapshots < MaxSnapshots + 1
    /\ print_status(vol)
    /\ mpc' = IF notified THEN "read_volume" ELSE "lock_signal"
    /\ UNCHANGED <<vol, waits, volume, notified, watcherVars, lockVars, ghostVars>>
    /\ UNCHANGED <<rb>>

\* Mutant of SPrintStatus: the cell is read again, without the lock, for the
\* value that is printed.
SPrintStatusReread ==
    /\ mpc = "print_status"
    /\ print_status(volume)
    /\ mpc' = "lock_signal"
    /\ UNCHANGED <<vol, waits, volume, notified, watcherVars, lockVars, ghostVars>>
    /\ UNCHANGED <<rb>>

\* print_status(&mut sys, vol, &mut net_state); }
SPrintStatus ==
    /\ mpc = "print_status"
    /\ print_status(vol)
    /\ mpc' = "lock_signal"
    /\ UNCHANGED <<vol, waits, volume, notified, watcherVars, lockVars, ghostVars>>
    /\ UNCHANGED <<rb>>

MainNext ==
    \/ MPrintVersion
    \/ MPrintOpen
    \/ MInitVolume
    \/ MSpawnWatcher
    \/ MFirstLock
    \/ MFirstPrint
    \/ SLockSignal
    \/ SWaitEnter
    \/ SWaitTimeout
    \/ SWaitReturn
    \/ SDropSignal
    \/ SReadVolume
    \/ SUnlockVolume
    \/ SPrintStatus


\* --------------------------------------------------------- watcher thread
\* Mutant of WSubscribe: the subprocess is started inside the critical
\* section, so a failed start panics with the volume lock held.
WSubscribeLocked ==
    /\ wpc = "subscribe"
    /\ volLock = "none"
    /\ \E started \in BOOLEAN :
          IF started
          THEN wpc' = "take_stdout" /\ UNCHANGED lockVars
          ELSE wpc' = "panicked" /\ poisoned' = poisoned \cup {"volume"}
               /\ UNCHANGED <<volLock, sigLock>>
    /\ UNCHANGED <<new_vol, events, signals, changed, volume, notified, mainVars, ghostVars>>
    /\ UNCHANGED <<event, staleShown, rb>>

\* Command::new("pactl").arg("subscribe")...spawn().expect(...): the thread
\* panics, holding nothing, when the subprocess cannot be started.
WSubscribe ==
    /\ wpc = "subscribe"
    /\ \E started \in BOOLEAN :
          IF started
          THEN wpc' = "take_stdout" /\ UNCHANGED lockVars
          ELSE wpc' = "panicked" /\ Panic("watcher")
    /\ UNCHANGED <<new_vol, events, signals, changed, volume, notified, mainVars, ghostVars>>
    /\ UNCHANGED <<event, staleShown, rb>>

\* child.stdout.take().expect(...): Some, as stdout was set to Stdio::piped().
WTakeStdout ==
    /\ wpc = "take_stdout"
    /\ wpc' = "read_line"
    /\ UNCHANGED <<new_vol, events, signals, changed, volume, notified, mainVars, lockVars, ghostVars>>
    /\ UNCHANGED <<event, staleShown, rb>>

\* for line in reader.lines(): the next item, a line or a read error.
WReadLine ==
    /\ wpc = "read_line"
    /\ events < MaxEvents
    /\ \E r \in ReadResults : event' = Some(r)
    /\ events' = events + 1
    /\ wpc' = "check_line"
    /\ UNCHANGED <<new_vol, signals, changed, volume, notified, mainVars, lockVars, ghostVars>>
    /\ UNCHANGED <<staleShown, rb>>

\* Mutant of WCheckLine: the marker test is dropped, every readable line
\* leads to the re-query.
WCheckLineAny ==
    /\ wpc = "check_line"
    /\ wpc' = IF Unwrap(event).ok THEN "query" ELSE "read_line"
    /\ event' = None
    /\ UNCHANGED <<new_vol, events, signals, changed, volume, notified, mainVars, lockVars, ghostVars>>
    /\ UNCHANGED <<staleShown, rb>>

\* if let Ok(event) = line { if event.contains("Event 'change' on sink") {
\* an unreadable line and a line without the marker are skipped, a marked
\* line leads to the re-query; the line is not used again.
WCheckLine ==
    /\ wpc = "check_line"
    /\ wpc' = IF Unwrap(event).ok /\ ContainsMarker(Unwrap(event).text) THEN "query" ELSE "read_line"
    /\ event' = None
    /\ UNCHANGED <<new_vol, events, signals, changed, volume, notified, mainVars, lockVars, ghostVars>>
    /\ UNCHANGED <<staleShown, rb>>

\* reader.lines() ends (the subprocess exited): the closure returns.
WEndOfStream ==
    /\ wpc = "read_line"
    /\ wpc' = "done"
    /\ UNCHANGED <<new_vol, events, signals, changed, volume, notified, mainVars, lockVars, ghostVars>>
    /\ UNCHANGED <<event, staleShown, rb>>

\* if let Some(new_vol) = get_volume()
WQuery ==
    /\ wpc = "query"
    /\ \E o \in PactlOutputs :
          IF IsSome(get_volume(o))
          THEN /\ new_vol' = Unwrap(get_volume(o))
               /\ lastObserved' = get_volume(o)
               /\ changed' = IF Unwrap(get_volume(o)) # volume THEN changed + 1 ELSE changed
               /\ wpc' = "lock_volume"
          ELSE /\ wpc' = "read_line"
               /\ UNCHANGED <<new_vol, lastObserved, changed>>
    /\ UNCHANGED <<events, signals, volume, notified, mainVars, lockVars, wakeCause,
                   missedSignal, wakeVals>>
    /\ UNCHANGED <<event, staleShown, rb>>

\* let mut vol_lock = volume_clone.lock().unwrap();
WLockVolume ==
    /\ wpc = "lock_volume"
    /\ volLock = "none"
    /\ IF "volume" \in poisoned
       THEN /\ wpc' = "panicked"
            /\ Panic("watcher")
       ELSE /\ volLock' = "watcher"
            /\ wpc' = "compare"
            /\ UNCHANGED <<sigLock, poisoned>>
    /\ UNCHANGED <<new_vol, events, signals, changed, volume, notified, mainVars, ghostVars>>
    /\ UNCHANGED <<event, staleShown, rb>>

\* Mutant of Differs: the comparison is dropped, every re-query publishes.
DiffersAlways(stored, queried) == TRUE

\* *vol_lock != new_vol
Differs(stored, queried) == stored # queried

\* if *vol_lock != new_vol { ... }
WCompare ==
    /\ wpc = "compare"
    /\ wpc' = IF Differs(volume, new_vol) THEN "write" ELSE "unlock_volume"
    /\ UNCHANGED <<new_vol, events, signals, changed, volume, notified, mainVars, lockVars, ghostVars>>
    /\ UNCHANGED <<event, staleShown, rb>>

\* Mutant of WWrite: the volume guard is dropped right after the store,
\* before the pair's mutex is taken.
WWriteThenUnlock ==
    /\ wpc = "write"
    /\ volume' = new_vol
    /\ staleShown' = 0
    /\ volLock' = "none"
    /\ wpc' = "lock_signal"
    /\ wakeVals' = IF wakeCause = "signal" /\ mpc \in {"woken", "drop_signal", "read_volume"}
                   THEN wakeVals \cup {new_vol}
                   ELSE wakeVals
    /\ UNCHANGED <<new_vol, events, signals, changed, notified, mainVars, sigLock, poisoned,
                   wakeCause, missedSignal, lastObserved>>
    /\ UNCHANGED <<event, rb>>

\* *vol_lock = new_vol;
WWrite ==
    /\ wpc = "write"
    /\ volume' = new_vol
    /\ staleShown' = 0
    /\ wpc' = "lock_signal"
    /\ wakeVals' = IF wakeCause = "signal" /\ mpc \in {"woken", "drop_signal", "read_volume"}
                   THEN wakeVals \cup {new_vol}
                   ELSE wakeVals
    /\ UNCHANGED <<new_vol, events, signals, changed, notified, mainVars, lockVars, wakeCause,
                   missedSignal, lastObserved>>
    /\ UNCHANGED <<event, rb>>

\* let mut notified = lock.lock().unwrap();  (vol_lock still held)
WLockSignal ==
    /\ wpc = "lock_signal"
    /\ sigLock = "none"
    /\ IF "signal" \in poisoned
       THEN /\ wpc' = "panicked"
            /\ Panic("watcher")
       ELSE /\ sigLock' = "watcher"
            /\ wpc' = "set_flag"
            /\ UNCHANGED <<volLock, poisoned>>
    /\ UNCHANGED <<new_vol, events, signals, changed, volume, notified, mainVars, ghostVars>>
    /\ UNCHANGED <<event, staleShown, rb>>

\* *notified = true;
WSetFlag ==
    /\ wpc = "set_flag"
    /\ notified' = TRUE
    /\ wpc' = "notify"
    /\ UNCHANGED <<new_vol, events, signals, changed, volume, mainVars, lockVars, ghostVars>>
    /\ UNCHANGED <<event, staleShown, rb>>

\* cvar.notify_one(): wakes main if it is blocked in wait_timeout, and is
\* without effect otherwise.
WNotify ==
    /\ wpc = "notify"
    /\ signals' = signals + 1
    /\ wpc' = "unlock_signal"
    /\ IF mpc = "waiting"
       THEN /\ mpc' = "woken"
            /\ wakeCause' = "signal"
            /\ wakeVals' = {volume}
            /\ UNCHANGED missedSignal
       ELSE /\ missedSignal' = (missedSignal \/ ~InWait)
            /\ UNCHANGED <<mpc, wakeCause, wakeVals>>
    /\ UNCHANGED <<new_vol, events, changed, volume, notified, vol, out, backlight, waits,
                   lockVars, lastObserved>>
    /\ UNCHANGED <<event, staleShown, rb>>

\* End of the inner block: the guard `notified` is dropped.
WUnlockSignal ==
    /\ wpc = "unlock_signal"
    /\ sigLock' = "none"
    /\ wpc' = "unlock_volume"
    /\ UNCHANGED <<new_vol, events, signals, changed, volume, notified, mainVars, volLock, poisoned,
                   ghostVars>>
    /\ UNCHANGED <<event, staleShown, rb>>

\* End of the `if let Some` block: vol_lock is dropped, new_vol goes out of
\* scope, and the loop takes the next line.
WUnlockVolume ==
    /\ wpc = "unlock_volume"
    /\ volLock' = "none"
    /\ new_vol' = DefaultVolume
    /\ wpc' = "read_line"
    /\ UNCHANGED <<events, signals, changed, volume, notified, mainVars, sigLock, poisoned,
                   ghostVars>>
    /\ UNCHANGED <<event, staleShown, rb>>

WatcherNext ==
    \/ WSubscribe
    \/ WTakeStdout
    \/ WReadLine
    \/ WCheckLine
    \/ WEndOfStream
    \/ WQuery
    \/ WLockVolume
    \/ WCompare
    \/ WWrite
    \/ WLockSignal
    \/ WSetFlag
    \/ WNotify
    \/ WUnlockSignal
    \/ WUnlockVolume

\* ------------------------------------------------------------------ system
Next == MainNext \/ WatcherNext

Spec == Init /\ [][Next]_vars

\* The main thread keeps running and its timer fires; nothing is assumed of
\* the event stream or of the watcher.
FairSpec == Spec /\ WF_vars(MainNext)

\* --------------------------------------------------------- readable_bytes
programVars == <<mainVars, watcherVars, lockVars, ghostVars, volume, notified, staleShown>>

\* A call readable_bytes(num), at the head of the loop over the units.
BytesInit ==
    /\ MainInit
    /\ rb \in {[pc |-> "test", arg |-> x, num |-> x, unit |-> 1, ret |-> ""] : x \in ByteCounts}

\* if num < 1024.0 { return format!("{num:.2}{unit}"); }
RBReturn ==
    /\ rb.pc = "test"
    /\ rb.unit <= Len(Units)
    /\ Lt1024(rb.num)
    /\ rb' = [rb EXCEPT !.pc = "returned",
                        !.ret = Fixed2(Hundredths(rb.num)) \o Units[rb.unit]]
    /\ UNCHANGED programVars

\* else { num /= 1024.0; } and the next unit
RBDivide ==
    /\ rb.pc = "test"
    /\ rb.unit <= Len(Units)
    /\ ~Lt1024(rb.num)
    /\ rb' = [rb EXCEPT !.num = Div1024(rb.num), !.unit = rb.unit + 1]
    /\ UNCHANGED programVars

\* "ERROR".to_string(): the units are used up.
RBError ==
    /\ rb.pc = "test"
    /\ rb.unit > Len(Units)
    /\ rb' = [rb EXCEPT !.pc = "returned", !.ret = "ERROR"]
    /\ UNCHANGED programVars

BytesNext ==
    \/ RBReturn
    \/ RBDivide
    \/ RBError

BytesSpec == BytesInit /\ [][BytesNext]_vars

TypeOK ==
    /\ mpc \in {"print_version", "print_open", "init_volume", "spawn", "first_lock",
                "first_print", "lock_signal", "wait", "waiting", "woken", "drop_signal",
                "read_volume", "unlock_volume", "print_status", "panicked"}
    /\ wpc \in {"not_spawned", "subscribe", "take_stdout", "read_line", "check_line",
                "query", "lock_volume", "compare", "write", "lock_signal", "set_flag", "notify",
                "unlock_signal", "unlock_volume", "done", "panicked"}
    /\ volume \in Nat /\ new_vol \in Nat /\ vol \in Nat
    /\ notified \in BOOLEAN
    /\ volLock \in {"none", "main", "watcher"}
    /\ sigLock \in {"none", "main", "watcher"}
    /\ poisoned \subseteq {"volume", "signal"}
    /\ backlight \in BacklightStates
    /\ events \in 0..MaxEvents
    /\ waits \in Nat /\ signals \in Nat /\ changed \in Nat
    /\ wakeCause \in {"none", "signal", "timeout"}
    /\ missedSignal \in BOOLEAN
    /\ Len(lastObserved) <= 1
    /\ wakeVals \subseteq Nat
    /\ event \in {None} \cup {Some(r) : r \in ReadResults}
    /\ staleShown \in Nat
    /\ rb.pc \in {"not_called", "test", "returned"}


\* ------------------------------------------------------------------ claims
\* The volume a snapshot line shows (the number in its first block).
ShownVolume(line) == line.blocks[1].full_text.value

\* C1: no lost wakeup.  A notify_one that found the main thread outside
\* wait_timeout (building, or before its first wait) ends the next wait: when
\* that wait ends, it ends by the signal and not by the timeout.
C1_NoLostWakeup ==
    (mpc = "woken" /\ missedSignal) => wakeCause = "signal"

\* C2: no lost update.  Every snapshot line shows the value the cell holds at
\* the moment the line is printed, so the first snapshot after a write shows
\* the written value, also when the write lands between the read and the print.
C2_NoLostUpdate ==
    [][(Len(out') > Len(out) /\ Len(out') > 2) => ShownVolume(out'[Len(out')]) = volume]_vars

\* C3: coalescing.  A re-query that gives the stored value takes the watcher
\* from the comparison straight to the release of the volume lock: no write,
\* no flag, no notification.  So there are never more notifications than
\* re-queries that gave another value, and while there were none of those the
\* flag is false, nothing was notified and no wait was ended by a signal.
C3_Coalescing ==
    /\ [][(wpc = "compare" /\ new_vol = volume /\ wpc' # wpc)
            => (wpc' = "unlock_volume" /\ UNCHANGED <<volume, notified, signals, mpc, wakeCause>>)]_vars
    /\ [](signals <= changed)
    /\ [](changed = 0 => (~notified /\ signals = 0 /\ wakeCause # "signal"))

\* C3 witness: two event lines read, a re-query that gave the stored value has
\* been compared, and nothing was ever published.
C3_Witness ==
    /\ wpc = "unlock_volume"
    /\ events = 2
    /\ IsSome(lastObserved) /\ Unwrap(lastObserved) = volume
    /\ changed = 0 /\ signals = 0
    /\ snapshots >= 2

\* C4: timeout liveness.  If no event line is ever read, every snapshot is
\* followed by another one (up to the bound on snapshots), and no wait is ever
\* ended by a signal.
C4_TimeoutLiveness ==
    [](events = 0) =>
        /\ \A n \in 0..(MaxSnapshots - 1) : (snapshots = n) ~> (snapshots = n + 1)
        /\ [](wakeCause # "signal")

\* C4 witness: all snapshots printed, the last wait ended by the timeout, and
\* the watcher has read no line.
C4_Witness ==
    /\ events = 0
    /\ signals = 0
    /\ snapshots = MaxSnapshots
    /\ waits = MaxSnapshots - 1
    /\ wakeCause = "timeout"

\* C5: watcher failure is isolated.  A watcher that has ended (panicked on the
\* subprocess, or out of lines) holds no mutex, has poisoned none and has not
\* brought the main thread down, and from then on the main thread goes on
\* printing snapshots, one after the other, until the bound on snapshots.
WatcherEnded == wpc \in {"done", "panicked"}

C5_WatcherFailureIsolated ==
    /\ [](WatcherEnded => (HeldBy("watcher") = {} /\ poisoned = {} /\ mpc # "panicked"))
    /\ WatcherEnded ~> (snapshots = MaxSnapshots)

\* C5 witness: the watcher published a change, then its stream ended; the main
\* thread has since printed up to the bound, its last wait ended by the timeout.
C5_Witness ==
    /\ wpc = "done"
    /\ signals >= 1
    /\ snapshots = MaxSnapshots
    /\ wakeCause = "timeout"
    /\ HeldBy("watcher") = {}


\* C6: freshness.  Whenever the main thread reads the cell, the value it reads
\* is the result of the latest successful get_volume of the program.
C6_Freshness ==
    [][(mpc \in {"first_lock", "read_volume"} /\ mpc' \in {"first_print", "unlock_volume"}
        /\ IsSome(lastObserved))
          => vol' = Unwrap(lastObserved)]_vars

\* The watcher has written the cell and has not yet called notify_one.
WrittenNotSignalled == wpc \in {"lock_signal", "set_flag", "notify"}

\* C7: atomic publish.  The main thread never holds the value of a read made
\* between the watcher's write and its notify_one (whenever main holds the
\* volume lock, the watcher is outside that window), and a read made after a
\* wait that a signal ended gives the value whose write raised that signal or
\* one written later.
C7_AtomicPublish ==
    /\ volLock = "main" => ~WrittenNotSignalled
    /\ (mpc \in {"unlock_volume", "print_status"} /\ wakeCause = "signal") => vol \in wakeVals

\* C7 witness: the main thread, woken by a signal, has read the cell after a
\* second write landed: it read the later value, not the one that woke it.
C7_Witness ==
    /\ mpc = "unlock_volume"
    /\ wakeCause = "signal"
    /\ Cardinality(wakeVals) = 2
    /\ vol = volume
    /\ signals = 2

\* C8: no double-build.  Outside a build the snapshots printed number one more
\* than the waits that have returned; from the return of a wait to the print
\* exactly one snapshot is owed; before the first print there is none.
C8_NoDoubleBuild ==
    /\ mpc \in {"print_version", "print_open", "init_volume", "spawn", "first_lock",
                "first_print"} => (snapshots = 0 /\ waits = 0)
    /\ mpc \in {"lock_signal", "wait", "waiting", "woken"} => snapshots = 1 + waits
    /\ mpc \in {"drop_signal", "read_volume", "unlock_volume", "print_status"}
          => snapshots + 1 = 1 + waits

\* C8 witness: the timeout has ended the wait and, before wait_timeout has
\* returned, the watcher has called notify_one: both fell in one waiting period.
C8_Witness ==
    /\ mpc = "woken"
    /\ wakeCause = "timeout"
    /\ wpc = "unlock_signal"
    /\ waits >= 1
    /\ snapshots = 1 + waits

\* C9: output order.  The version line is line 1 and nowhere else, "[" is line
\* 2 and nowhere else, every later line is a block array followed by a comma,
\* no line closes the outer array, the output only grows at its end, and no
\* watcher step writes to it.
C9_OutputOrder ==
    /\ [](/\ Len(out) >= 1 => out[1] = VersionLine
          /\ Len(out) >= 2 => out[2] = OpenLine
          /\ \A i \in 1..Len(out) :
                /\ i > 1 => out[i] # VersionLine
                /\ i > 2 => (out[i].text = "{}," /\ Len(out[i].blocks) >= 1)
                /\ out[i].text # "]")
    /\ [][out' = out \/ (Len(out') = Len(out) + 1 /\ SubSeq(out', 1, Len(out)) = out)]_vars
    /\ [][WatcherNext => out' = out]_vars

\* C9 witness: both header lines and every snapshot the bound allows are out,
\* and the watcher has published in between.
C9_Witness ==
    /\ Len(out) = 2 + MaxSnapshots
    /\ signals >= 1

\* The names of the blocks of a snapshot line, in order.
BlockNames(line) == [i \in 1..Len(line.blocks) |-> line.blocks[i].name]

\* C10: sensor failure isolation.  Every call of print_status prints a line;
\* every snapshot line starts with the volume block and ends with the clock
\* block; the line just printed has a brightness block, between the two, if
\* and only if the brightness read of that build succeeded.
C10_SensorIsolation ==
    /\ [][(mpc \in {"first_print", "print_status"} /\ mpc' # mpc) => Len(out') = Len(out) + 1]_vars
    /\ [](\A i \in 3..Len(out) :
            \/ BlockNames(out[i]) = <<"volume", "clock">>
            \/ BlockNames(out[i]) = <<"volume", "brightness", "clock">>)
    /\ [](Len(out) > 2 =>
            (IsSome(get_brightness(backlight))
                <=> BlockNames(out[Len(out)]) = <<"volume", "brightness", "clock">>))

\* C10 witness: volume 42, brightness unreadable: the line is [volume, clock]
\* and its volume block shows 42.
C10_Witness ==
    /\ Len(out) > 2
    /\ ~IsSome(get_brightness(backlight))
    /\ out[Len(out)].blocks = <<VolumeBlock(42), ClockBlock>>
    /\ ShownVolume(out[Len(out)]) = 42

\* C11: range of the cell.  The value in the volume cell is within 0..100 in
\* every reachable state, whatever the volume query returned.
C11_CellRange ==
    volume \in 0..100

\* C12: the flag is cleared after use.  When a build that a signal caused is
\* over and the main thread is back at the head of its loop, the flag is false.
C12_FlagCleared ==
    [][(mpc = "print_status" /\ mpc' = "lock_signal" /\ wakeCause = "signal") => ~notified']_vars

\* C13: startup snapshot.  The main thread never aborts; the first build is
\* under way with no wait begun and nothing having woken it; while the first
\* wait has not returned the output is the two header lines and one snapshot;
\* and a startup query that gave nothing leaves 0 in the cell.
C13_StartupSnapshot ==
    /\ mpc # "panicked"
    /\ mpc \in {"first_lock", "first_print"}
          => (Len(out) = 2 /\ waits = 0 /\ wakeCause = "none")
    /\ (mpc \in {"lock_signal", "wait", "waiting", "woken"} /\ waits = 0)
          => (Len(out) = 3 /\ snapshots = 1)
    /\ (mpc = "spawn" /\ ~IsSome(lastObserved)) => volume = 0

\* C13 witness: the startup query gave nothing, the first snapshot shows 0 and
\* the main thread is blocked in its first wait.
C13_Witness ==
    /\ mpc = "waiting"
    /\ waits = 0
    /\ ~IsSome(lastObserved)
    /\ snapshots = 1
    /\ ShownVolume(out[3]) = 0

\* C14: single writer, single read per build.  After the cell is initialised
\* no step of the main thread changes it and only the watcher's store does;
\* the main thread's copy changes only in its two read steps; and a snapshot
\* line shows that copy.
C14_SingleWriterSingleRead ==
    /\ [][(MainNext /\ mpc # "init_volume") => volume' = volume]_vars
    /\ [][volume' # volume => (mpc = "init_volume" \/ wpc = "write")]_vars
    /\ [][vol' # vol => mpc \in {"first_lock", "read_volume"}]_vars
    /\ [][(Len(out') > Len(out) /\ Len(out') > 2) => ShownVolume(out'[Len(out')]) = vol]_vars

\* C14 witness: a loop snapshot is out that shows the value read for it, while
\* the watcher has since stored another value.
C14_Witness ==
    /\ mpc = "lock_signal"
    /\ snapshots >= 2
    /\ ShownVolume(out[Len(out)]) = vol
    /\ vol # volume
    /\ signals >= 1

\* C15: irrelevant input.  The test of a line changes neither the cell nor
\* the flag and raises no notification; an unreadable line and a line without
\* the marker send the watcher to the next line, a marked line to the
\* re-query; a re-query that gives nothing does the same as an unmarked line;
\* and the cell is stored, the flag set and a notification raised only on the
\* path of a re-queried value that differs from the stored one.
C15_IrrelevantInput ==
    /\ [][(wpc = "check_line" /\ wpc' # wpc) =>
            /\ volume' = volume /\ notified' = notified /\ signals' = signals
            /\ wpc' = IF Unwrap(event).ok
                         /\ Unwrap(event).text \in {SinkChangeLine, SinkInputChangeLine}
                      THEN "query" ELSE "read_line"]_vars
    /\ [][(wpc = "query" /\ wpc' # wpc) =>
            /\ volume' = volume /\ notified' = notified /\ signals' = signals
            /\ \/ wpc' = "read_line" /\ lastObserved' = lastObserved
               \/ wpc' = "lock_volume" /\ lastObserved' = Some(new_vol')]_vars
    /\ [][(volume' # volume /\ mpc # "init_volume")
            => (wpc = "write" /\ volume' = new_vol /\ lastObserved = Some(new_vol))]_vars
    /\ [][(notified' # notified \/ signals' # signals)
            => (wpc \in {"set_flag", "notify"} /\ volume = new_vol
                /\ lastObserved = Some(new_vol))]_vars

\* C15 witness: after a marked line whose re-query led to a store and a
\* notification, the watcher tests a line that could not be read.
C15_Witness ==
    /\ wpc = "check_line"
    /\ ~Unwrap(event).ok
    /\ signals = 1
    /\ notified

\* x < 2^p
Below(x, p) == x.m = 0 \/ (x.e < p /\ (p - x.e > 30 \/ x.m < 2^(p - x.e)))

\* The k with 1024^k <= x < 1024^(k+1), for x below 1024^6.
UnitIndex(x) == CHOOSE k \in 0..5 : Below(x, 10 * (k + 1)) /\ (k = 0 \/ ~Below(x, 10 * k))

\* text is the value x (below 1024) to two decimals, followed by unit.
ShownAs(x, unit, text) ==
    IF x.m = 0 THEN text = "0.00" \o unit
    ELSE IF x.e >= 0 THEN text = Fixed2(100 * x.m * 2^(x.e)) \o unit
    ELSE LET d == 2^(0 - x.e)
             q == (100 * x.m) \div d
             r == (100 * x.m) % d
         IN  \/ 2 * r <= d /\ text = Fixed2(q) \o unit
             \/ 2 * r >= d /\ text = Fixed2(q + 1) \o unit

\* C16: byte-size formatting.  A byte count n with 1024^k <= n < 1024^(k+1),
\* k in 0..5, is returned as n / 1024^k to two decimals with the k-th unit; a
\* count of 1024^6 or more as the error marker; 0 gives "0.00B" and 1536
\* gives "1.50KB".
C16_ReadableBytes ==
    rb.pc = "returned" =>
        /\ IF Below(rb.arg, 60)
           THEN LET k == UnitIndex(rb.arg)
                IN  ShownAs(F32(rb.arg.m, rb.arg.e - 10 * k), Units[k + 1], rb.ret)
           ELSE rb.ret = "ERROR"
        /\ rb.arg = F32(0, 0) => rb.ret = "0.00B"
        /\ rb.arg = F32(3, 9) => rb.ret = "1.50KB"

\* C16 witness: the call with exactly 1024^6 bytes has returned the error
\* marker.
C16_Witness ==
    /\ rb.pc = "returned"
    /\ rb.arg = F32(1, 60)
    /\ rb.ret = "ERROR"

\* The mutex a thread is about to lock.
MainWants ==
    IF mpc \in {"lock_signal", "woken"} THEN {"signal"}
    ELSE IF mpc \in {"first_lock", "read_volume"} THEN {"volume"}
    ELSE {}

WatcherWants ==
    IF wpc = "lock_volume" THEN {"volume"}
    ELSE IF wpc = "lock_signal" THEN {"signal"}
    ELSE {}

\* C17: deadlock freedom.  The two threads never each wait for a mutex the
\* other holds: the main thread holds at most one mutex and none when it goes
\* for the volume mutex, and the watcher holds the pair's mutex only inside
\* the volume mutex.
C17_NoDeadlock ==
    /\ ~(MainWants \cap HeldBy("watcher") # {} /\ WatcherWants \cap HeldBy("main") # {})
    /\ Cardinality(HeldBy("main")) <= 1
    /\ MainWants # {} => HeldBy("main") = {}
    /\ sigLock = "watcher" => volLock = "watcher"

\* C17 witness: the watcher, holding the volume mutex, waits for the pair's
\* mutex, which the main thread holds on its way into the wait.
C17_Witness ==
    /\ wpc = "lock_signal"
    /\ volLock = "watcher"
    /\ sigLock = "main"
    /\ mpc = "wait"

\* C18: bounded staleness.  Of the snapshots printed since the latest store at
\* most one shows another value than the cell's; a read of the cell gives the
\* main thread the cell's value, and a snapshot that shows another value was
\* read for before that store.
C18_BoundedStaleness ==
    /\ [](staleShown <= 1)
    /\ [][(mpc = "read_volume" /\ mpc' = "unlock_volume") => vol' = volume]_vars
    /\ [][(staleShown' > staleShown) => (mpc = "print_status" /\ vol # volume)]_vars
    /\ [](mpc \in {"unlock_volume", "first_print"} => vol = volume)

\* C18 witness: of two snapshots printed after the latest store the first
\* shows the value read before it and the second shows the stored value.
C18_Witness ==
    /\ snapshots = 3
    /\ staleShown = 1
    /\ ShownVolume(out[4]) # volume
    /\ ShownVolume(out[5]) = volume

\* C19: the startup build excludes the watcher.  During the first print_status
\* the main thread holds the volume mutex, the cell does not change, the line
\* printed shows the cell's value and the mutex is released with it; in the
\* loop print_status runs without the volume mutex.
C19_StartupBuildLocked ==
    /\ [](mpc = "first_print" => volLock = "main")
    /\ [][mpc = "first_print" => volume' = volume]_vars
    /\ [][(mpc = "first_print" /\ mpc' # mpc)
            => (Len(out') = 3 /\ ShownVolume(out'[3]) = volume' /\ volLock' = "none")]_vars
    /\ [](mpc = "print_status" => volLock # "main")

\* C19 witness: during the startup build the watcher stands before the volume
\* mutex with a re-queried value other than the stored one.
C19_Witness ==
    /\ mpc = "first_print"
    /\ volLock = "main"
    /\ wpc = "lock_volume"
    /\ new_vol # volume

=============================================================================
